---- MODULE Spec2Model ----
(***************************************************************************)
(* The DFSPH pressure solver of the Nikola fluid simulation                *)
(* (src/src/fluids/pressure.rs): one Fluid, its particles, its             *)
(* neighborhood index and the stages of Fluid::dfsph.                      *)
(*                                                                         *)
(* Numbers.  The code computes in f32 on Vec3.  The model works on one     *)
(* axis and represents an f32 by an exact fraction <<n, d>> in lowest      *)
(* terms with d > 0, and the IEEE 754 non-finite values by a zero          *)
(* denominator: <<1, 0>> is +inf, <<-1, 0>> is -inf and <<0, 0>> is NaN.   *)
(* Rounding is not modelled; division by zero, inf - inf, 0 * inf and the  *)
(* comparisons with NaN behave as IEEE 754 prescribes.  A finite value     *)
(* whose fraction leaves the range of the model is Beyond, and so is       *)
(* whatever is computed from it; a stage whose result is not within the    *)
(* bounds ends the behaviour in the position "out_of_range".               *)
(***************************************************************************)
EXTENDS Integers, FiniteSets, Sequences, TLC

(***************************************************************************)
(* Bounds of the model.                                                    *)
(***************************************************************************)
NumParticles == 2     \* particles in the fluid
MaxNum == 64          \* largest numerator / denominator of a finite value
MaxSteps == 2         \* calls of dfsph in one behaviour
IterMax == 3          \* the largest value of a loop counter (i32::MAX)
MaxWork == 16384      \* largest numerator / denominator within a computation

Particles == 1..NumParticles

(***************************************************************************)
(* f32 arithmetic.                                                         *)
(***************************************************************************)
(* (The operations are functions, applied through operators of the same
   name less the Of: a function's argument is computed once.) *)
Abs(n) == IF n < 0 THEN -n ELSE n

Sign(n) == IF n < 0 THEN -1 ELSE IF n > 0 THEN 1 ELSE 0

GCDOf[a \in Nat, b \in Nat] == IF b = 0 THEN a ELSE GCDOf[b, a % b]

\* The fraction n / d in lowest terms; a zero denominator keeps the sign of n.
NormOf[n \in Int, d \in Int] ==
    IF d = 0 THEN <<Sign(n), 0>>
    ELSE LET g == GCDOf[Abs(n), Abs(d)]
             s == IF d < 0 THEN -1 ELSE 1
         IN  <<s * Sign(n) * (Abs(n) \div g), Abs(d) \div g>>

Norm(n, d) == NormOf[n, d]

Float == Int \X Int

F(n) == <<n, 1>>
Zero == <<0, 1>>
One == <<1, 1>>
PInf == <<1, 0>>
NInf == <<-1, 0>>
NaN == <<0, 0>>
Beyond == <<0, -1>>

IsNaN(x) == x = NaN
IsFinite(x) == x[2] > 0

\* r if its fraction is within MaxWork, else Beyond.
ClampOf[r \in Float] ==
    IF r[2] = 0 \/ (Abs(r[1]) <= MaxWork /\ r[2] <= MaxWork) THEN r ELSE Beyond

FNegOf[x \in Float] == <<-x[1], x[2]>>

FNeg(x) == FNegOf[x]

\* x + y; inf + inf is inf, inf - inf is NaN.
FAddOf[x \in Float, y \in Float] ==
    IF x = Beyond \/ y = Beyond THEN Beyond
    ELSE IF x[2] = 0 /\ y[2] = 0
    THEN (IF x = y THEN x ELSE NaN)
    ELSE ClampOf[NormOf[x[1] * y[2] + y[1] * x[2], x[2] * y[2]]]

FAdd(x, y) == FAddOf[x, y]

FSub(x, y) == FAddOf[x, FNegOf[y]]

\* x * y; 0 * inf is NaN.
FMulOf[x \in Float, y \in Float] ==
    IF x = Beyond \/ y = Beyond THEN Beyond
    ELSE ClampOf[NormOf[x[1] * y[1], x[2] * y[2]]]

FMul(x, y) == FMulOf[x, y]

\* 1 / x; 1 / 0 is +inf.
RecipOf[x \in Float] ==
    IF x = Beyond THEN Beyond
    ELSE IF x[1] < 0 THEN <<-x[2], -x[1]>> ELSE <<x[2], x[1]>>

\* x / y; x / 0 is an infinity of the sign of x, 0 / 0 is NaN.
FDiv(x, y) == FMulOf[x, RecipOf[y]]

\* x > y; false when either is NaN (or Beyond).
FGtOf[x \in Float, y \in Float] ==
    /\ x \notin {NaN, Beyond}
    /\ y \notin {NaN, Beyond}
    /\ IF x[2] = 0 /\ y[2] = 0 THEN x[1] > y[1]
       ELSE x[1] * y[2] > y[1] * x[2]

FGt(x, y) == FGtOf[x, y]

\* x <= y; false when either is NaN (or Beyond).
FLeOf[x \in Float, y \in Float] ==
    x \notin {NaN, Beyond} /\ y \notin {NaN, Beyond} /\ ~FGtOf[x, y]

FLe(x, y) == FLeOf[x, y]

FAbsOf[x \in Float] == <<Abs(x[1]), x[2]>>

FAbs(x) == FAbsOf[x]

\* A value the model follows: non-finite, or a fraction within MaxNum.
InBoundOf[x \in Float] ==
    x[2] = 0 \/ (x[2] > 0 /\ Abs(x[1]) <= MaxNum /\ x[2] <= MaxNum)

InBound(x) == InBoundOf[x]

RECURSIVE FSum(_, _)
\* The sum of the terms f[j], j in S, accumulated from 0.0.
FSum(f, S) ==
    IF S = {} THEN Zero
    ELSE LET j == CHOOSE k \in S : TRUE
         IN  FAdd(f[j], FSum(f, S \ {j}))

(***************************************************************************)
(* State.  particles[i] is the SmoothedParticle behind the i-th Rcc of     *)
(* Fluid::particles; neighborhoods is the index; params holds the fields   *)
(* of Fluid that no method writes.  pc is the position of the running      *)
(* dfsph call, iteration the loop counter of the correction loop under     *)
(* way, density_over_time_sum and average_density_over_time the locals of  *)
(* correct_divergence, ret what the last dfsph call returned, step the     *)
(* number of dfsph calls so far.  pass describes the pass over the         *)
(* particles under way when a pass is followed particle by particle: the   *)
(* particles not yet visited and the particles as the pass found them.     *)
(***************************************************************************)
VARIABLES particles, neighborhoods, params, average_density, max_velocity,
          delta_time, pc, iteration, density_over_time_sum,
          average_density_over_time, ret, step, pass

\* The state of the memory module (memory.rs): the shared cells, the Rcc
\* handles, the reference each handle has given out, and the last read.
VARIABLES cells, handles, refs, read

\* The state of the compute module (computer.rs): the extent of a compute
\* unit, the workgroup size of a call and the count the call produced.
VARIABLES dimensions, workgroup, dispatch

fluid_vars == <<particles, neighborhoods, params, average_density,
                max_velocity, delta_time, pc, iteration,
                density_over_time_sum, average_density_over_time, ret, step,
                pass>>

rcc_vars == <<cells, handles, refs, read>>

computer_vars == <<dimensions, workgroup, dispatch>>

vars == <<fluid_vars, rcc_vars, computer_vars>>

\* No Rcc has been created.
NoRcc ==
    /\ cells = << >>
    /\ handles = << >>
    /\ refs = << >>
    /\ read = [handle |-> 0, value |-> 0, latest |-> 0]

\* No call of compute_work_group_count has been made.
NoDispatch ==
    [size |-> <<0, 0>>, workgroup_size |-> <<1, 1>>, count |-> <<0, 0>>,
     status |-> "none"]

\* No compute unit has been created.
NoComputeUnit ==
    /\ dimensions = <<0, 0>>
    /\ workgroup = <<1, 1>>
    /\ dispatch = NoDispatch

(***************************************************************************)
(* Collaborators of the solver whose code is outside src/: the kernel,     *)
(* the neighborhood index, the per-particle computations and advect.       *)
(***************************************************************************)
\* The default support radius, tied to the particle size.
SupportRadius == params.particle_size

\* kernel::smoothing_kernel_grad(a, b, None): antisymmetric, zero at a = b,
\* vanishing continuously at the support radius and beyond.
smoothing_kernel_grad(a, b) ==
    LET r == FSub(a, b)
        q == FAbs(r)
    IN  IF FGt(SupportRadius, q) THEN FMul(FNeg(r), FSub(SupportRadius, q))
        ELSE Zero

\* Neighborhoods::from(&mut particles): a full rebuild that files every
\* particle under the position it has now.
NeighborhoodsFrom(ps, include_self) ==
    [cells |-> [i \in Particles |-> ps[i].position],
     include_self |-> include_self]

\* Neighborhoods::get_neighbors(position): the particles filed within the
\* support radius of the position; the empty set stands for None.  An index
\* may or may not report the particle filed at the position itself.
get_neighbors(position) ==
    {j \in Particles :
        /\ FLe(FAbs(FSub(neighborhoods.cells[j], position)), SupportRadius)
        /\ (neighborhoods.include_self \/ neighborhoods.cells[j] # position)}

\* SmoothedParticle::compute_dsph_factor(&others): density over the squared
\* sum plus the sum of squares of the mass-weighted kernel gradients, and
\* zero when that denominator vanishes.
compute_dsph_factor(ps, i, others) ==
    LET g == [j \in others |->
                 FMul(ps[j].mass,
                      smoothing_kernel_grad(ps[i].position, ps[j].position))]
        s == FSum(g, others)
        q == FSum([j \in others |-> FMul(g[j], g[j])], others)
        denom == FAdd(FMul(s, s), q)
    IN  IF denom = Beyond THEN Beyond
        ELSE IF FGt(denom, Zero) THEN FDiv(ps[i].density, denom) ELSE Zero

\* SmoothedParticle::compute_density_predict_inplace(&others, dt): the value
\* it stores in density_predict.
compute_density_predict(ps, i, others, dt) ==
    LET t == [j \in others |->
                 FMul(FMul(ps[j].mass,
                           FSub(ps[i].velocity_predict, ps[j].velocity_predict)),
                      smoothing_kernel_grad(ps[i].position, ps[j].position))]
    IN  FAdd(ps[i].density, FMul(dt, FSum(t, others)))

\* SmoothedParticle::interpolate_div(&neighbors, "velocity_predict").
interpolate_div(ps, i, neighbors) ==
    LET t == [j \in neighbors |->
                 FMul(FMul(FDiv(ps[j].mass, ps[j].density),
                           FSub(ps[j].velocity_predict, ps[i].velocity_predict)),
                      smoothing_kernel_grad(ps[i].position, ps[j].position))]
    IN  FSum(t, neighbors)

\* The acceleration advect applies: gravity along the axis.
NonPressureAcceleration == FNeg(One)

\* non_pressure::advect(&mut particles, dt).
advect(ps, dt) ==
    [i \in Particles |->
        [ps[i] EXCEPT !.velocity_predict =
            FAdd(ps[i].velocity, FMul(dt, NonPressureAcceleration))]]

(***************************************************************************)
(* Fluid's getters.                                                        *)
(***************************************************************************)
\* get_average_density: the densities summed in order, over the count.
get_average_density(ps) ==
    FDiv(FSum([i \in Particles |-> ps[i].density], Particles),
         F(NumParticles))

\* Fault variant of get_max_velocity: the fold keeps the speed of the
\* particle it visits, whether or not it is the larger.
get_max_velocity_last_seen(ps) == FAbs(ps[NumParticles].velocity)

RECURSIVE MaxVelocityFrom(_, _, _)
\* The fold of get_max_velocity from particle i on, max so far m.
MaxVelocityFrom(ps, i, m) ==
    IF i > NumParticles THEN m
    ELSE MaxVelocityFrom(ps, i + 1,
             IF FGt(FAbs(ps[i].velocity), m) THEN FAbs(ps[i].velocity) ELSE m)

get_max_velocity(ps) == MaxVelocityFrom(ps, 1, Zero)

(***************************************************************************)
(* The initial state: a fluid as constructed, before the first step.       *)
(***************************************************************************)
InitPositions == {F(0), F(1), F(3)}
InitVelocities == {F(-1), F(0), F(1)}
InitDensities == {F(1), F(2)}

NewParticle(i, x, v, rho) ==
    [position |-> x, velocity |-> v, velocity_predict |-> v,
     density |-> rho, density_predict |-> rho, mass |-> F(i),
     pressure |-> Zero, pressure_value |-> Zero, dsph_factor |-> Zero]

\* (Positions enter the computations through their differences only: the
\* first particle is put at the origin.)
Init ==
    /\ \E xs \in [Particles -> InitPositions],
          vs \in [Particles -> InitVelocities],
          rs \in [Particles -> InitDensities] :
          /\ xs[1] = Zero
          /\ particles =
                 [i \in Particles |-> NewParticle(i, xs[i], vs[i], rs[i])]
    /\ \E b \in BOOLEAN : neighborhoods = NeighborhoodsFrom(particles, b)
    /\ params = [particle_size |-> F(2), cfl_parameter |-> <<1, 2>>,
                 density_threshold |-> <<1, 4>>,
                 divergence_threshold |-> <<1, 4>>,
                 rest_density |-> One]
    /\ average_density = get_average_density(particles)
    /\ max_velocity = get_max_velocity(particles)
    /\ delta_time = One
    /\ pc = "idle"
    /\ iteration = 0
    /\ density_over_time_sum = Zero
    /\ average_density_over_time = Zero
    /\ ret = "none"
    /\ step = 0
    /\ pass = [pending |-> {}, entry |-> particles]
    /\ NoRcc
    /\ NoComputeUnit

(***************************************************************************)
(* The passes over the particles.  ApplyTask(kind, ps, i) is the body of   *)
(* the `for particle in &mut self.particles` loop named kind, run for the  *)
(* i-th particle on the particles ps.  Neighbors are shared handles: what  *)
(* a body reads of a neighbor is the neighbor's current value in ps.       *)
(***************************************************************************)
\* dfsph, stage 1: dsph_factor is assigned only if the query returns Some.
FactorTask(ps, i) ==
    LET others == get_neighbors(ps[i].position)
    IN  IF others # {}
        THEN [ps EXCEPT ![i].dsph_factor = compute_dsph_factor(ps, i, others)]
        ELSE ps

\* Fault variant of DensityPredictTask: the prediction is stored in density.
DensityPredictTaskIntoDensity(ps, i) ==
    LET others == get_neighbors(ps[i].position)
    IN  IF others # {}
        THEN [ps EXCEPT ![i].density =
                 compute_density_predict(ps, i, others, delta_time)]
        ELSE ps

\* correct_density, first loop: density_predict, only if the query returns Some.
DensityPredictTask(ps, i) ==
    LET others == get_neighbors(ps[i].position)
    IN  IF others # {}
        THEN [ps EXCEPT ![i].density_predict =
                 compute_density_predict(ps, i, others, delta_time)]
        ELSE ps

\* Fault variant of PressureTask: the value is stored in mass.
PressureTaskIntoMass(ps, i) ==
    [ps EXCEPT ![i].mass =
        FMul(FMul(FDiv(One, FMul(delta_time, delta_time)),
                  FSub(ps[i].density_predict, params.rest_density)),
             ps[i].dsph_factor)]

\* correct_density, second loop.
PressureTask(ps, i) ==
    [ps EXCEPT ![i].pressure =
        FMul(FMul(FDiv(One, FMul(delta_time, delta_time)),
                  FSub(ps[i].density_predict, params.rest_density)),
             ps[i].dsph_factor)]

\* Fault variant of DensityGradientTerm: the neighbor's pressure term is
\* left out.
DensityGradientTermOwnPressure(ps, i, j) ==
    FMul(FMul(ps[j].mass,
              FDiv(ps[i].pressure, FMul(ps[i].density, ps[i].density))),
         smoothing_kernel_grad(ps[i].position, ps[j].position))

\* The term a neighbor j adds to the sum of particle i in the third loop of
\* correct_density.
DensityGradientTerm(ps, i, j) ==
    FMul(FMul(ps[j].mass,
              FAdd(FDiv(ps[i].pressure, FMul(ps[i].density, ps[i].density)),
                   FDiv(ps[j].pressure, FMul(ps[j].density, ps[j].density)))),
         smoothing_kernel_grad(ps[i].position, ps[j].position))

\* Fault variant of DensityGradientTask: the task of particle i scatters,
\* taking from the velocity_predict of each of its neighbors what that
\* neighbor receives from i.
DensityGradientTaskScatter(ps, i) ==
    LET neighbors == get_neighbors(ps[i].position)
    IN  [k \in Particles |->
            IF k \in neighbors
            THEN [ps[k] EXCEPT !.velocity_predict =
                     FSub(@, FMul(delta_time, DensityGradientTerm(ps, k, i)))]
            ELSE ps[k]]

\* correct_density, third loop; no neighbors (None) is the empty list.
DensityGradientTask(ps, i) ==
    LET neighbors == get_neighbors(ps[i].position)
        sum == FSum([j \in neighbors |-> DensityGradientTerm(ps, i, j)],
                    neighbors)
    IN  [ps EXCEPT ![i].velocity_predict =
            FSub(ps[i].velocity_predict, FMul(delta_time, sum))]

\* correct_divergence, first loop: what particle i adds to
\* density_over_time_sum.
DensityOverTime(ps, i) ==
    FMul(FNeg(ps[i].density),
         interpolate_div(ps, i, get_neighbors(ps[i].position)))

\* correct_divergence, second loop.
PressureValueTask(ps, i) ==
    [ps EXCEPT ![i].pressure_value =
        FMul(FMul(FDiv(One, delta_time), Zero), ps[i].dsph_factor)]

\* The term a neighbor j adds to the sum of particle i in the third loop of
\* correct_divergence.
DivergenceGradientTerm(ps, i, j) ==
    FMul(FMul(ps[j].mass,
              FAdd(FDiv(ps[i].pressure_value,
                        FMul(ps[i].density, ps[i].density)),
                   FDiv(ps[j].pressure_value,
                        FMul(ps[j].density, ps[j].density)))),
         smoothing_kernel_grad(ps[i].position, ps[j].position))

\* correct_divergence, third loop.
DivergenceGradientTask(ps, i) ==
    LET neighbors == get_neighbors(ps[i].position)
        sum == FSum([j \in neighbors |-> DivergenceGradientTerm(ps, i, j)],
                    neighbors)
    IN  [ps EXCEPT ![i].velocity_predict =
            FSub(ps[i].velocity_predict, FMul(delta_time, sum))]

\* dfsph, stage 5.
IntegrateTask(ps, i) ==
    [ps EXCEPT ![i].position =
        FAdd(ps[i].position, FMul(ps[i].velocity_predict, delta_time))]

\* Fault variant of CommitTask: the assignment runs the other way.
CommitTaskReversed(ps, i) ==
    [ps EXCEPT ![i].velocity_predict = ps[i].velocity]

\* dfsph, stage 8.
CommitTask(ps, i) == [ps EXCEPT ![i].velocity = ps[i].velocity_predict]

ApplyTask(kind, ps, i) ==
    CASE kind = "factor" -> FactorTask(ps, i)
      [] kind = "density_predict" -> DensityPredictTask(ps, i)
      [] kind = "pressure" -> PressureTask(ps, i)
      [] kind = "density_gradient" -> DensityGradientTask(ps, i)
      [] kind = "density_over_time" -> ps
      [] kind = "pressure_value" -> PressureValueTask(ps, i)
      [] kind = "divergence_gradient" -> DivergenceGradientTask(ps, i)
      [] kind = "integrate" -> IntegrateTask(ps, i)
      [] kind = "commit" -> CommitTask(ps, i)

RECURSIVE ForEachFrom(_, _, _)
\* The loop `for particle in &mut self.particles` from the i-th particle on.
ForEachFrom(kind, ps, i) ==
    IF i > NumParticles THEN ps
    ELSE CHOOSE r \in {ForEachFrom(kind, q, i + 1) :
                          q \in {ApplyTask(kind, ps, i)}} : TRUE

\* (A value bound by \in {e} is computed once, where an operator's argument
\* is computed at each of its uses.)
ForEach(kind, ps) ==
    CHOOSE r \in {ForEachFrom(kind, q, 1) : q \in {ps}} : TRUE

RECURSIVE DensityOverTimeFrom(_, _, _)
\* The first loop of correct_divergence from the i-th particle on: the
\* accumulator goes on from acc.
DensityOverTimeFrom(ps, i, acc) ==
    IF i > NumParticles THEN acc
    ELSE CHOOSE r \in {DensityOverTimeFrom(ps, i + 1, a) :
                          a \in {FAdd(acc, DensityOverTime(ps, i))}} : TRUE

\* `iteration += 1` on an i32, ending an iteration of a correction loop:
\* past IterMax a build without overflow checks wraps around and one with
\* them panics.
IncrementIteration(head) ==
    \/ /\ iteration < IterMax
       /\ iteration' = iteration + 1
       /\ pc' = head
    \/ /\ iteration = IterMax
       /\ iteration' = -IterMax - 1
       /\ pc' = head
    \/ /\ iteration = IterMax
       /\ iteration' = iteration
       /\ pc' = "panicked"

(***************************************************************************)
(* Values beyond the bounds of the model end a behaviour in the state      *)
(* "out_of_range".                                                          *)
(***************************************************************************)
ParticleInBound(p) ==
    /\ InBound(p.position) /\ InBound(p.velocity) /\ InBound(p.velocity_predict)
    /\ InBound(p.density_predict) /\ InBound(p.pressure)
    /\ InBound(p.pressure_value) /\ InBound(p.dsph_factor)

Within(ps) == \A i \in Particles : ParticleInBound(ps[i])

OutOfRange ==
    /\ pc' = "out_of_range"
    /\ UNCHANGED <<particles, neighborhoods, params, average_density,
                   max_velocity, delta_time, iteration,
                   density_over_time_sum, average_density_over_time, ret,
                   step, pass>>

(***************************************************************************)
(* Fluid::dfsph, stage by stage.                                           *)
(***************************************************************************)
\* The right-hand side of apply_cfl.
cfl_delta_time(ps) ==
    FDiv(FMul(params.cfl_parameter, params.particle_size),
         get_max_velocity(ps))

\* Fault variant of CorrectDensityCondition: one iteration is forced, not two.
CorrectDensityConditionOnce(threshold) ==
    \/ iteration < 1
    \/ FGt(FSub(average_density, params.rest_density), threshold)

\* The condition of the while loop of correct_density(threshold).
CorrectDensityCondition(threshold) ==
    \/ iteration < 2
    \/ FGt(FSub(average_density, params.rest_density), threshold)

\* Fault variant of CorrectDivergenceCondition: the comparison is the other
\* way round.
CorrectDivergenceConditionBelow(threshold) ==
    \/ iteration < 1
    \/ FGt(threshold, average_density_over_time)

\* The condition of the while loop of correct_divergence(threshold).
CorrectDivergenceCondition(threshold) ==
    \/ iteration < 1
    \/ FGt(average_density_over_time, threshold)

\* One pass of the body of the while loop of correct_density.
CorrectDensityBody(ps) ==
    ForEach("density_gradient",
            ForEach("pressure", ForEach("density_predict", ps)))

\* The particles after one pass of the body of the while loop of
\* correct_divergence.
CorrectDivergenceBody(ps) ==
    ForEach("divergence_gradient", ForEach("pressure_value", ps))

\* A caller invokes dfsph; its first loop updates the factors.
DfsphFactorUpdate ==
    /\ UNCHANGED <<rcc_vars, computer_vars>>
    /\ pc = "idle"
    /\ step < MaxSteps
    /\ \E ps \in {ForEach("factor", particles)} :
           IF Within(ps)
           THEN /\ particles' = ps
                /\ pc' = "cfl"
                /\ step' = step + 1
                /\ ret' = "none"
                /\ UNCHANGED <<neighborhoods, params, average_density,
                               max_velocity, delta_time, iteration,
                               density_over_time_sum,
                               average_density_over_time, pass>>
           ELSE OutOfRange

\* Fault variant of DfsphApplyCfl: the step keeps the delta_time it has.
DfsphApplyCflSkipped ==
    /\ UNCHANGED <<rcc_vars, computer_vars>>
    /\ pc = "cfl"
    /\ pc' = "advect"
    /\ UNCHANGED <<particles, neighborhoods, params, average_density,
                   max_velocity, delta_time, iteration,
                   density_over_time_sum, average_density_over_time, ret,
                   step, pass>>

\* self.apply_cfl()
DfsphApplyCfl ==
    /\ UNCHANGED <<rcc_vars, computer_vars>>
    /\ pc = "cfl"
    /\ \E dt \in {cfl_delta_time(particles)} :
           IF InBound(dt)
           THEN /\ delta_time' = dt
                /\ pc' = "advect"
                /\ UNCHANGED <<particles, neighborhoods, params,
                               average_density, max_velocity, iteration,
                               density_over_time_sum,
                               average_density_over_time, ret, step, pass>>
           ELSE OutOfRange

\* advect(&mut self.particles, self.delta_time), then the entry of
\* correct_density: iteration = 0.
DfsphAdvect ==
    /\ UNCHANGED <<rcc_vars, computer_vars>>
    /\ pc = "advect"
    /\ \E ps \in {advect(particles, delta_time)} :
           IF Within(ps)
           THEN /\ particles' = ps
                /\ pc' = "density"
                /\ iteration' = 0
                /\ UNCHANGED <<neighborhoods, params, average_density,
                               max_velocity, delta_time,
                               density_over_time_sum,
                               average_density_over_time, ret, step, pass>>
           ELSE OutOfRange

\* One iteration of the while loop of correct_density.
CorrectDensityIteration ==
    /\ UNCHANGED <<rcc_vars, computer_vars>>
    /\ pc = "density"
    /\ CorrectDensityCondition(params.density_threshold)
    /\ \E ps \in {CorrectDensityBody(particles)} :
           IF Within(ps)
           THEN /\ particles' = ps
                /\ IncrementIteration("density")
                /\ UNCHANGED <<neighborhoods, params, average_density,
                               max_velocity, delta_time,
                               density_over_time_sum,
                               average_density_over_time, ret, step, pass>>
           ELSE OutOfRange

\* The while loop of correct_density ends.
CorrectDensityExit ==
    /\ UNCHANGED <<rcc_vars, computer_vars>>
    /\ pc = "density"
    /\ ~CorrectDensityCondition(params.density_threshold)
    /\ pc' = "integrate"
    /\ UNCHANGED <<particles, neighborhoods, params, average_density,
                   max_velocity, delta_time, iteration,
                   density_over_time_sum, average_density_over_time, ret,
                   step, pass>>

\* position += velocity_predict * delta_time, for every particle.
DfsphIntegrate ==
    /\ UNCHANGED <<rcc_vars, computer_vars>>
    /\ pc = "integrate"
    /\ \E ps \in {ForEach("integrate", particles)} :
           IF Within(ps)
           THEN /\ particles' = ps
                /\ pc' = "rebuild"
                /\ UNCHANGED <<neighborhoods, params, average_density,
                               max_velocity, delta_time, iteration,
                               density_over_time_sum,
                               average_density_over_time, ret, step, pass>>
           ELSE OutOfRange

\* Fault variant of DfsphRebuild: the index built before the positions
\* moved is kept.
DfsphRebuildStale ==
    /\ UNCHANGED <<rcc_vars, computer_vars>>
    /\ pc = "rebuild"
    /\ pc' = "divergence"
    /\ iteration' = 0
    /\ average_density_over_time' = Zero
    /\ density_over_time_sum' = Zero
    /\ UNCHANGED <<particles, neighborhoods, params, average_density,
                   max_velocity, delta_time, ret, step, pass>>

\* self.neighborhoods = Neighborhoods::from(&mut self.particles), then the
\* entry of correct_divergence: its three locals are zeroed.
DfsphRebuild ==
    /\ UNCHANGED <<rcc_vars, computer_vars>>
    /\ pc = "rebuild"
    /\ neighborhoods' =
           NeighborhoodsFrom(particles, neighborhoods.include_self)
    /\ pc' = "divergence"
    /\ iteration' = 0
    /\ average_density_over_time' = Zero
    /\ density_over_time_sum' = Zero
    /\ UNCHANGED <<particles, params, average_density, max_velocity,
                   delta_time, ret, step, pass>>

\* One iteration of the while loop of correct_divergence.
CorrectDivergenceIteration ==
    /\ UNCHANGED <<rcc_vars, computer_vars>>
    /\ pc = "divergence"
    /\ CorrectDivergenceCondition(params.divergence_threshold)
    /\ \E sum \in {DensityOverTimeFrom(particles, 1, density_over_time_sum)},
          ps \in {CorrectDivergenceBody(particles)} :
       \E avg \in {FDiv(sum, F(NumParticles))} :
           IF Within(ps) /\ InBound(sum) /\ InBound(avg)
           THEN /\ particles' = ps
                /\ density_over_time_sum' = sum
                /\ average_density_over_time' = avg
                /\ IncrementIteration("divergence")
                /\ UNCHANGED <<neighborhoods, params, average_density,
                               max_velocity, delta_time, ret, step, pass>>
           ELSE OutOfRange

\* The while loop of correct_divergence ends.
CorrectDivergenceExit ==
    /\ UNCHANGED <<rcc_vars, computer_vars>>
    /\ pc = "divergence"
    /\ ~CorrectDivergenceCondition(params.divergence_threshold)
    /\ pc' = "commit"
    /\ UNCHANGED <<particles, neighborhoods, params, average_density,
                   max_velocity, delta_time, iteration,
                   density_over_time_sum, average_density_over_time, ret,
                   step, pass>>

\* velocity = velocity_predict for every particle; dfsph returns ().
DfsphCommit ==
    /\ UNCHANGED <<rcc_vars, computer_vars>>
    /\ pc = "commit"
    /\ particles' = ForEach("commit", particles)
    /\ pc' = "idle"
    /\ ret' = "unit"
    /\ UNCHANGED <<neighborhoods, params, average_density, max_velocity,
                   delta_time, iteration, density_over_time_sum,
                   average_density_over_time, step, pass>>

Next ==
    \/ DfsphFactorUpdate
    \/ DfsphApplyCfl
    \/ DfsphAdvect
    \/ CorrectDensityIteration
    \/ CorrectDensityExit
    \/ DfsphIntegrate
    \/ DfsphRebuild
    \/ CorrectDivergenceIteration
    \/ CorrectDivergenceExit
    \/ DfsphCommit

Spec == Init /\ [][Next]_vars

\* dfsph is sequential code: a call under way always takes its next step.
FairSpec == Spec /\ WF_vars(Next)

(***************************************************************************)
(* The correction loops followed particle by particle.  Each              *)
(* `for particle in &mut self.particles` loop of correct_density and       *)
(* correct_divergence is a pass; TasksSpec runs the bodies of a pass one   *)
(* particle at a time and in any order, as a data-parallel loop over the   *)
(* particles would.                                                        *)
(***************************************************************************)
DensityPasses == <<"density_predict", "pressure", "density_gradient">>

DivergencePasses ==
    <<"density_over_time", "pressure_value", "divergence_gradient">>

LoopPasses ==
    {DensityPasses[k] : k \in 1..3} \cup {DivergencePasses[k] : k \in 1..3}

\* The pass after pass kind in its loop body, "" after the last.
PassAfter(kind) ==
    CASE kind = "density_predict" -> "pressure"
      [] kind = "pressure" -> "density_gradient"
      [] kind = "density_over_time" -> "pressure_value"
      [] kind = "pressure_value" -> "divergence_gradient"
      [] OTHER -> ""

StartPass == [pending |-> Particles, entry |-> particles]

\* The while loop of correct_density goes into its body.
BeginDensityBody ==
    /\ UNCHANGED <<rcc_vars, computer_vars>>
    /\ pc = "density"
    /\ CorrectDensityCondition(params.density_threshold)
    /\ pc' = DensityPasses[1]
    /\ pass' = StartPass
    /\ UNCHANGED <<particles, neighborhoods, params, average_density,
                   max_velocity, delta_time, iteration,
                   density_over_time_sum, average_density_over_time, ret,
                   step>>

\* The while loop of correct_divergence goes into its body.
BeginDivergenceBody ==
    /\ UNCHANGED <<rcc_vars, computer_vars>>
    /\ pc = "divergence"
    /\ CorrectDivergenceCondition(params.divergence_threshold)
    /\ pc' = DivergencePasses[1]
    /\ pass' = StartPass
    /\ UNCHANGED <<particles, neighborhoods, params, average_density,
                   max_velocity, delta_time, iteration,
                   density_over_time_sum, average_density_over_time, ret,
                   step>>

\* The body of the pass under way runs for one particle not yet visited.
RunTask ==
    /\ UNCHANGED <<rcc_vars, computer_vars>>
    /\ pc \in LoopPasses
    /\ \E i \in pass.pending :
       \E ps \in {ApplyTask(pc, particles, i)},
          sum \in {IF pc = "density_over_time"
                   THEN FAdd(density_over_time_sum,
                             DensityOverTime(particles, i))
                   ELSE density_over_time_sum} :
           IF Within(ps) /\ InBound(sum)
           THEN /\ particles' = ps
                /\ density_over_time_sum' = sum
                /\ pass' = [pass EXCEPT !.pending = @ \ {i}]
                /\ UNCHANGED <<neighborhoods, params, average_density,
                               max_velocity, delta_time, pc, iteration,
                               average_density_over_time, ret, step>>
           ELSE OutOfRange

\* A pass has visited every particle and is not the last of its loop body:
\* the next pass starts.
NextPass ==
    /\ UNCHANGED <<rcc_vars, computer_vars>>
    /\ pc \in LoopPasses
    /\ pass.pending = {}
    /\ PassAfter(pc) # ""
    /\ pc' = PassAfter(pc)
    /\ pass' = StartPass
    /\ UNCHANGED <<particles, neighborhoods, params, average_density,
                   max_velocity, delta_time, iteration,
                   density_over_time_sum, average_density_over_time, ret,
                   step>>

\* The last pass of the body of correct_density is through.
EndDensityBody ==
    /\ UNCHANGED <<rcc_vars, computer_vars>>
    /\ pc = DensityPasses[3]
    /\ pass.pending = {}
    /\ IncrementIteration("density")
    /\ UNCHANGED <<particles, neighborhoods, params, average_density,
                   max_velocity, delta_time, density_over_time_sum,
                   average_density_over_time, ret, step, pass>>

\* The last pass of the body of correct_divergence is through.
EndDivergenceBody ==
    /\ UNCHANGED <<rcc_vars, computer_vars>>
    /\ pc = DivergencePasses[3]
    /\ pass.pending = {}
    /\ \E avg \in {FDiv(density_over_time_sum, F(NumParticles))} :
           IF InBound(avg)
           THEN /\ average_density_over_time' = avg
                /\ IncrementIteration("divergence")
                /\ UNCHANGED <<particles, neighborhoods, params,
                               average_density, max_velocity, delta_time,
                               density_over_time_sum, ret, step, pass>>
           ELSE OutOfRange

TasksNext ==
    \/ DfsphFactorUpdate
    \/ DfsphApplyCfl
    \/ DfsphAdvect
    \/ BeginDensityBody
    \/ RunTask
    \/ NextPass
    \/ EndDensityBody
    \/ CorrectDensityExit
    \/ DfsphIntegrate
    \/ DfsphRebuild
    \/ BeginDivergenceBody
    \/ EndDivergenceBody
    \/ CorrectDivergenceExit
    \/ DfsphCommit

\* The fluids TasksSpec follows: those whose particles are at rest density,
\* so that the density loop leaves after its two iterations.
TasksInit ==
    /\ Init
    /\ \A i \in Particles : particles[i].density = params.rest_density

TasksSpec == TasksInit /\ [][TasksNext]_vars

(***************************************************************************)
(* The fluid between two steps.  density is the density measured since     *)
(* the previous step: the code that measures it is outside src/ and        *)
(* reaches the particles through its own handles.  average_density is a    *)
(* private field of Fluid, which that code cannot write.                   *)
(***************************************************************************)
\* Between two calls of dfsph a particle's density is measured anew.
MeasureDensity ==
    /\ UNCHANGED <<rcc_vars, computer_vars>>
    /\ pc = "idle"
    /\ step \in 1..(MaxSteps - 1)
    /\ \E i \in Particles, rho \in InitDensities :
          /\ rho # particles[i].density
          /\ particles' = [particles EXCEPT ![i].density = rho]
    /\ UNCHANGED <<neighborhoods, params, average_density, max_velocity,
                   delta_time, pc, iteration, density_over_time_sum,
                   average_density_over_time, ret, step, pass>>

MeasuredNext ==
    \/ Next
    \/ MeasureDensity

MeasuredSpec == Init /\ [][MeasuredNext]_vars

(***************************************************************************)
(* The memory module: Rcc<T>, a handle to a value shared by its clones.    *)
(* A cell is the Rc<RefCell<T>> allocation; a handle is an Rcc and names   *)
(* its cell; refs[h] is the reference handed out by handle h and still in  *)
(* use, with the value the holder last saw through it.                     *)
(***************************************************************************)
\* Bounds of the memory specification.
MaxCells == 2
MaxHandles == 3
MaxValue == 2

\* The values of T.
Values == 0..MaxValue

\* No Fluid has been constructed.
NoFluid ==
    /\ particles = << >>
    /\ neighborhoods = [cells |-> << >>, include_self |-> FALSE]
    /\ params = [particle_size |-> Zero, cfl_parameter |-> Zero,
                 density_threshold |-> Zero, divergence_threshold |-> Zero,
                 rest_density |-> Zero]
    /\ average_density = Zero
    /\ max_velocity = Zero
    /\ delta_time = Zero
    /\ pc = "none"
    /\ iteration = 0
    /\ density_over_time_sum = Zero
    /\ average_density_over_time = Zero
    /\ ret = "none"
    /\ step = 0
    /\ pass = [pending |-> {}, entry |-> << >>]

\* A handle with no reference in use.
NoRef == [kind |-> "none", seen |-> 0]

\* Rcc::new(data): a fresh cell holding data, and a handle to it.
RccNew ==
    /\ Len(cells) < MaxCells
    /\ Len(handles) < MaxHandles
    /\ \E data \in Values : cells' = Append(cells, data)
    /\ handles' = Append(handles, Len(cells) + 1)
    /\ refs' = Append(refs, NoRef)
    /\ UNCHANGED <<read, fluid_vars, computer_vars>>

\* Rcc::from_other(&other): the new handle's data is a clone of the
\* other's Rc, that is the same cell.
from_other(other) == handles[other]

\* Clone for Rcc: Rcc::from_other(self).
clone(self) == from_other(self)

\* A handle is cloned.  The borrow of the cloned handle is shared, so the
\* handle has given out no mutable reference that is still in use.
RccClone ==
    /\ Len(handles) < MaxHandles
    /\ \E self \in DOMAIN handles :
          /\ refs[self].kind # "mut"
          /\ handles' = Append(handles, clone(self))
    /\ refs' = Append(refs, NoRef)
    /\ UNCHANGED <<cells, read, fluid_vars, computer_vars>>

\* What self.data.as_ptr() points at: the value in the handle's cell.
as_ptr(self) == cells[handles[self]]

\* Deref::deref and Borrow::borrow: a shared reference made from the raw
\* pointer to the cell's value; the RefCell records no borrow.
RccDeref ==
    /\ \E self \in DOMAIN handles :
          /\ refs[self].kind = "none"
          /\ refs' = [refs EXCEPT ![self] =
                         [kind |-> "shared", seen |-> as_ptr(self)]]
    /\ UNCHANGED <<cells, handles, read, fluid_vars, computer_vars>>

\* DerefMut::deref_mut and BorrowMut::borrow_mut: a mutable reference made
\* from the raw pointer to the cell's value; the RefCell records no borrow,
\* so references of other handles of the cell may be in use.
RccDerefMut ==
    /\ \E self \in DOMAIN handles :
          /\ refs[self].kind = "none"
          /\ refs' = [refs EXCEPT ![self] =
                         [kind |-> "mut", seen |-> as_ptr(self)]]
    /\ UNCHANGED <<cells, handles, read, fluid_vars, computer_vars>>

\* A write through the mutable reference of a handle stores into the cell.
RccWrite ==
    /\ \E self \in DOMAIN handles, data \in Values :
          /\ refs[self].kind = "mut"
          /\ cells' = [cells EXCEPT ![handles[self]] = data]
          /\ refs' = [refs EXCEPT ![self].seen = data]
    /\ UNCHANGED <<handles, read, fluid_vars, computer_vars>>

\* The values a read through the reference of a handle can return.  When no
\* other handle wrote the cell since the reference was made or last used,
\* the value seen is the cell's.  Otherwise the reference was in use across
\* a write through another reference to the same value, which the language
\* leaves undefined: the read returns the cell's value or the value the
\* holder saw before.
ReadOutcomes(self) == {as_ptr(self), refs[self].seen}

\* A read through the reference of a handle.
RccRead ==
    /\ \E self \in DOMAIN handles :
          /\ refs[self].kind # "none"
          /\ \E data \in ReadOutcomes(self) :
                /\ read' = [handle |-> self, value |-> data,
                            latest |-> as_ptr(self)]
                /\ refs' = [refs EXCEPT ![self].seen = data]
    /\ UNCHANGED <<cells, handles, fluid_vars, computer_vars>>

\* The reference of a handle goes out of use.
RccRelease ==
    /\ \E self \in DOMAIN handles :
          /\ refs[self].kind # "none"
          /\ refs' = [refs EXCEPT ![self] = NoRef]
    /\ UNCHANGED <<cells, handles, read, fluid_vars, computer_vars>>

RccInit ==
    /\ NoRcc
    /\ NoFluid
    /\ NoComputeUnit

RccNext ==
    \/ RccNew
    \/ RccClone
    \/ RccDeref
    \/ RccDerefMut
    \/ RccWrite
    \/ RccRead
    \/ RccRelease

RccSpec == RccInit /\ [][RccNext]_vars

(***************************************************************************)
(* The compute module: compute_work_group_count and its call in            *)
(* ComputeUnit::execute.  u32 is modelled at a reduced width: MaxU32       *)
(* stands for u32::MAX.                                                    *)
(***************************************************************************)
MaxU32 == 15

\* The workgroup size ComputeUnit::execute passes, per axis.
ExecuteWorkgroup == 8

U32 == 0..MaxU32

\* u32 addition and subtraction as a build without overflow checks
\* computes them.
WrappingAdd(a, b) == (a + b) % (MaxU32 + 1)
WrappingSub(a, b) == (a + (MaxU32 + 1) - b) % (MaxU32 + 1)

\* (extent + workgroup_size - 1) / workgroup_size in u32, one axis.
AxisCount(extent, workgroup_size) ==
    WrappingSub(WrappingAdd(extent, workgroup_size), 1) \div workgroup_size

\* compute_work_group_count((width, height), (workgroup_width,
\* workgroup_height)) as a build without overflow checks computes it.
compute_work_group_count(size, workgroup_size) ==
    LET x == AxisCount(size[1], workgroup_size[1])
        y == AxisCount(size[2], workgroup_size[2])
    IN  <<x, y>>

\* An addition or subtraction of the axis leaves u32: a build with overflow
\* checks panics there.
AxisOverflows(extent, workgroup_size) ==
    \/ extent + workgroup_size > MaxU32
    \/ extent + workgroup_size < 1

\* What a call of compute_work_group_count produces: the wrapped result, or
\* a panic where an axis overflows and the build checks overflow.
CallOutcomes(size, workgroup_size) ==
    {[size |-> size, workgroup_size |-> workgroup_size,
      count |-> compute_work_group_count(size, workgroup_size),
      status |-> "returned"]}
        \cup (IF \E a \in 1..2 : AxisOverflows(size[a], workgroup_size[a])
              THEN {[size |-> size, workgroup_size |-> workgroup_size,
                     count |-> <<0, 0>>, status |-> "panicked"]}
              ELSE {})

\* The extents and the workgroup sizes callers pass.
Extents == {0, 1, ExecuteWorkgroup, ExecuteWorkgroup + 1, MaxU32}
WorkgroupSizes == {1, 2, ExecuteWorkgroup, MaxU32}

\* A caller applies compute_work_group_count to the unit's extent and a
\* workgroup size.
ComputeWorkGroupCount ==
    /\ dispatch' \in CallOutcomes(dimensions, workgroup)
    /\ UNCHANGED <<dimensions, workgroup, fluid_vars, rcc_vars>>

\* ComputeUnit::execute(state, bind_group, dimensions): the extent given
\* or else the unit's own, counted in workgroups of 8 by 8 and dispatched.
Execute ==
    /\ \E size \in {dimensions} \cup (Extents \X Extents) :
          dispatch' \in
              CallOutcomes(size, <<ExecuteWorkgroup, ExecuteWorkgroup>>)
    /\ UNCHANGED <<dimensions, workgroup, fluid_vars, rcc_vars>>

ComputerInit ==
    /\ dimensions \in Extents \X Extents
    /\ workgroup \in WorkgroupSizes \X WorkgroupSizes
    /\ dispatch = NoDispatch
    /\ NoFluid
    /\ NoRcc

ComputerNext ==
    \/ ComputeWorkGroupCount
    \/ Execute

ComputerSpec == ComputerInit /\ [][ComputerNext]_vars

(***************************************************************************)
(* Properties.                                                             *)
(***************************************************************************)
\* pc names the stage about to run; these are the positions of a call in
\* which apply_cfl has run.
AfterCfl ==
    {"advect", "density", "integrate", "rebuild", "divergence", "commit"}

\* A call has returned.
Returned == pc = "idle" /\ step > 0

\* Some particle's field f changes in a step.
FieldChanged(f) == \E i \in Particles : particles'[i][f] # particles[i][f]

AllFinite(ps) ==
    \A i \in Particles :
        /\ IsFinite(ps[i].position) /\ IsFinite(ps[i].velocity)
        /\ IsFinite(ps[i].velocity_predict) /\ IsFinite(ps[i].pressure)
        /\ IsFinite(ps[i].pressure_value) /\ IsFinite(ps[i].density_predict)

\* C1: every dfsph call ends: a call under way eventually returns (or is
\* cut short by a panic or by the bounds of the model), so neither
\* correction loop runs forever.
C1_EveryCallEnds ==
    (pc # "idle") ~> (pc \in {"idle", "panicked", "out_of_range"})

\* The stage that follows each stage of dfsph.
StageAfter ==
    [idle |-> "cfl", cfl |-> "advect", advect |-> "density",
     density |-> "integrate", integrate |-> "rebuild",
     rebuild |-> "divergence", divergence |-> "commit", commit |-> "idle"]

\* C2: the stages of dfsph run in the order factor update, apply_cfl,
\* advect, density loop, position integration, index rebuild, divergence
\* loop, commit, each writing only what belongs to it, and from apply_cfl
\* to the commit delta_time is the value apply_cfl computes from the
\* velocities of this step.
C2_StagesInOrder ==
    /\ [][/\ pc' # pc /\ pc' \notin {"panicked", "out_of_range"}
             => pc' = StageAfter[pc]
          /\ pc' = pc /\ pc' \notin {"panicked", "out_of_range"}
             => pc \in {"density", "divergence"}
          /\ FieldChanged("dsph_factor") => pc = "idle"
          /\ delta_time' # delta_time => pc = "cfl"
          /\ FieldChanged("velocity_predict")
             => pc \in {"advect", "density", "divergence"}
          /\ FieldChanged("position") => pc = "integrate"
          /\ neighborhoods' # neighborhoods => pc = "rebuild"
          /\ FieldChanged("velocity") => pc = "commit"]_vars
    /\ [](pc \in AfterCfl => delta_time = cfl_delta_time(particles))

\* Two calls of dfsph have run to their end on finite values.
C2_Witness ==
    /\ Returned /\ step = 2 /\ ret = "unit"
    /\ IsFinite(delta_time) /\ AllFinite(particles)
    /\ \E i \in Particles : particles[i].pressure # Zero

\* C3: once apply_cfl has run, delta_time is finite and strictly positive.
C3_DeltaTimePositiveFinite ==
    pc \in AfterCfl => IsFinite(delta_time) /\ FGt(delta_time, Zero)

\* C4: once apply_cfl has run and while the velocities it read stand, if
\* some particle moves then delta_time times the speed of any particle is
\* at most cfl_parameter * particle_size.
C4_CflBound ==
    (pc \in AfterCfl /\ \E i \in Particles : FGt(FAbs(particles[i].velocity), Zero))
    => \A i \in Particles :
           ~IsNaN(particles[i].velocity)
           => FLe(FMul(delta_time, FAbs(particles[i].velocity)),
                  FMul(params.cfl_parameter, params.particle_size))

\* apply_cfl has run on particles of different non-zero speeds.
C4_Witness ==
    /\ pc = "advect" /\ step = 2
    /\ \E i, j \in Particles :
          /\ FGt(FAbs(particles[i].velocity), FAbs(particles[j].velocity))
          /\ FGt(FAbs(particles[j].velocity), Zero)
          /\ IsFinite(particles[i].velocity)

\* C5: after the factor update of a step, every particle's dsph_factor is
\* the value computed from its neighbors in this step, and zero for a
\* particle whose query returns no neighbors.
C5_FactorRecomputed ==
    pc \in {"cfl", "advect", "density"}
    => \A i \in Particles :
           particles[i].dsph_factor =
               IF get_neighbors(particles[i].position) = {} THEN Zero
               ELSE compute_dsph_factor(particles, i,
                        get_neighbors(particles[i].position))

\* Both correction loops of the step that returned met their thresholds.
LoopsConverged ==
    /\ FLe(FSub(average_density, params.rest_density), params.density_threshold)
    /\ FLe(average_density_over_time, params.divergence_threshold)

\* C6: what dfsph returns tells the caller whether the correction loops
\* met their thresholds.
C6_StatusReported ==
    Returned
    => /\ ret \in {"converged", "unconverged"}
       /\ ret = "converged" <=> LoopsConverged

\* The index files every particle under the position it has.
IndexCurrent ==
    \A i \in Particles : neighborhoods.cells[i] = particles[i].position

\* C7: the index is replaced only by the rebuild that follows position
\* integration, positions are written only by position integration, and
\* except between the two the index files every particle under its
\* current position.
C7_IndexCurrent ==
    /\ [][/\ neighborhoods' # neighborhoods => pc = "rebuild"
          /\ FieldChanged("position") => pc = "integrate" /\ pc' = "rebuild"
          /\ pc = "rebuild" => neighborhoods' = NeighborhoodsFrom(particles, neighborhoods.include_self)]_vars
    /\ [](pc # "rebuild" => IndexCurrent)

\* The divergence loop of a step runs on an index rebuilt after the
\* particles moved.
C7_Witness ==
    /\ pc = "divergence" /\ iteration = 1
    /\ IndexCurrent
    /\ \E i \in Particles :
          /\ IsFinite(particles[i].position)
          /\ particles[i].position \notin InitPositions

\* C8: when dfsph returns every particle's velocity is its
\* velocity_predict, which the commit leaves as the divergence loop left
\* it, and no other stage writes velocity.
C8_VelocityCommitted ==
    /\ [][/\ FieldChanged("velocity") => pc = "commit"
          /\ pc = "commit" =>
                 /\ ~FieldChanged("velocity_predict")
                 /\ \A i \in Particles :
                        particles'[i].velocity = particles[i].velocity_predict]_vars
    /\ [](Returned =>
             \A i \in Particles :
                 particles[i].velocity = particles[i].velocity_predict)

\* A call has returned with a velocity that the step changed.
C8_Witness ==
    /\ Returned /\ step = 1
    /\ \E i \in Particles :
          /\ IsFinite(particles[i].velocity)
          /\ particles[i].velocity \notin InitVelocities

\* Particles i and j are each in the other's neighbor list.
MutualNeighbors(ps, i, j) ==
    /\ j \in get_neighbors(ps[i].position)
    /\ i \in get_neighbors(ps[j].position)

\* The sum over the particles of mass times velocity_predict.
Momentum(ps) ==
    FSum([i \in Particles |-> FMul(ps[i].mass, ps[i].velocity_predict)],
         Particles)

\* The term neighbor j adds to the sum of particle i in the third loop of
\* the correction loop under way, on the particles ps.
GradientTerm(ps, i, j) ==
    IF pc = "density" THEN DensityGradientTerm(ps, i, j)
    ELSE DivergenceGradientTerm(ps, i, j)

\* C10: in an iteration of either correction loop, the third loop takes
\* from the velocity_predict of particle i delta_time times the sum of the
\* terms of its neighbors (the terms as the pressures of this iteration,
\* which the third loop does not write, give them); for i and j each in the
\* other's list, mass_i times what j adds to i is the opposite of mass_j
\* times what i adds to j; and an iteration on finite values, neighborhood
\* being mutual, leaves the total momentum as it was.
C10_MomentumSymmetry ==
    [][(pc \in {"density", "divergence"} /\ pc' = pc) =>
          /\ \A i \in Particles :
                 \A nb \in {get_neighbors(particles[i].position)} :
                     particles'[i].velocity_predict =
                         FSub(particles[i].velocity_predict,
                              FMul(delta_time,
                                   FSum([j \in nb |->
                                            GradientTerm(particles', i, j)],
                                        nb)))
          /\ \A i, j \in Particles :
                 (i < j /\ MutualNeighbors(particles, i, j)) =>
                     FMul(particles[i].mass,
                          FMul(delta_time, GradientTerm(particles', i, j)))
                     = FNeg(FMul(particles[j].mass,
                                 FMul(delta_time,
                                      GradientTerm(particles', j, i))))
          /\ (/\ \A i, j \in Particles :
                     j \in get_neighbors(particles[i].position)
                     => MutualNeighbors(particles, i, j)
              /\ IsFinite(delta_time)
              /\ AllFinite(particles) /\ AllFinite(particles'))
             => Momentum(particles') = Momentum(particles)]_vars

\* An iteration of the density loop has moved the velocity_predict of two
\* particles that are each other's neighbors and differ in mass and
\* pressure.
C10_Witness ==
    /\ pc = "density" /\ iteration = 1
    /\ IsFinite(delta_time) /\ AllFinite(particles)
    /\ \E i, j \in Particles :
          /\ i # j
          /\ MutualNeighbors(particles, i, j)
          /\ particles[i].pressure # particles[j].pressure
          /\ DensityGradientTerm(particles, i, j) # Zero
          /\ particles[i].velocity_predict
                 # FAdd(particles[i].velocity,
                        FMul(delta_time, NonPressureAcceleration))

\* C9: a task of a pass writes its own particle only, and whatever the
\* order in which a pass visits the particles it leaves them as the loop in
\* sequence order does.
C9_OrderIndependent ==
    /\ [][(pc \in LoopPasses /\ pc' = pc) =>
              (\A k \in Particles :
                   k \in (pass.pending \ pass'.pending)
                   \/ particles'[k] = particles[k])]_vars
    /\ []((pc \in LoopPasses /\ pass.pending = {}) =>
              particles = ForEach(pc, pass.entry))

\* The third pass of correct_density is through and has moved every
\* particle's velocity_predict.
C9_Witness ==
    /\ pc = "density_gradient" /\ pass.pending = {}
    /\ AllFinite(particles)
    /\ \A i \in Particles :
           particles[i].velocity_predict # pass.entry[i].velocity_predict

\* C11: no step changes the number of particles or the mass of a particle.
C11_CountAndMassKept ==
    [][/\ DOMAIN particles' = DOMAIN particles
       /\ \A i \in Particles : particles'[i].mass = particles[i].mass]_vars

\* Two calls of dfsph have returned, having moved particles of different
\* mass and changed their velocities.
C11_Witness ==
    /\ Returned /\ step = 2
    /\ AllFinite(particles)
    /\ \E i, j \in Particles :
          /\ particles[i].mass # particles[j].mass
          /\ particles[i].pressure # Zero
          /\ particles[i].position # particles[j].position

\* average_density - rest_density > density_threshold
DensityAboveThreshold ==
    FGt(FSub(average_density, params.rest_density), params.density_threshold)

\* C12: the density loop leaves only after two iterations at least and only
\* when average_density - rest_density > density_threshold is false; after
\* two iterations it runs another exactly when that is true (a counter that
\* has wrapped has done so under a true condition), and leaves when it is
\* false.
C12_DensityLoopIterations ==
    /\ [][/\ (pc = "density" /\ pc' = "integrate")
             => (iteration >= 2 /\ ~DensityAboveThreshold)
          /\ (pc = "density" /\ iteration \in {0, 1}) => pc' # "integrate"
          /\ (pc = "density" /\ iteration >= 2 /\ DensityAboveThreshold)
             => pc' # "integrate"
          /\ (pc = "density" /\ iteration >= 2 /\ ~DensityAboveThreshold)
             => pc' = "integrate"
          /\ (pc = "density" /\ pc' = "density")
             => iteration' \in {iteration + 1, -IterMax - 1}]_vars
    /\ [](pc = "density" /\ iteration < 0 => DensityAboveThreshold)

\* The density loop of a second call has left after exactly two iterations
\* that changed pressures.
C12_Witness ==
    /\ pc = "integrate" /\ iteration = 2 /\ step = 2
    /\ ~DensityAboveThreshold
    /\ AllFinite(particles)
    /\ \E i \in Particles : particles[i].pressure # Zero

\* C13: once an iteration of the density loop has run, average_density is
\* the mean of the densities the particles have.
C13_AverageDensityRefreshed ==
    (pc = "density" /\ iteration # 0)
    => average_density = get_average_density(particles)

\* average_density_over_time > divergence_threshold
DivergenceAboveThreshold ==
    FGt(average_density_over_time, params.divergence_threshold)

\* C14: the divergence loop leaves only after one iteration at least and
\* only when average_density_over_time > divergence_threshold is false;
\* after one iteration it runs another exactly when that is true (a counter
\* that has wrapped has done so under a true condition), and leaves when it
\* is false.
C14_DivergenceLoopIterations ==
    /\ [][/\ (pc = "divergence" /\ pc' = "commit")
             => (iteration >= 1 /\ ~DivergenceAboveThreshold)
          /\ (pc = "divergence" /\ iteration = 0) => pc' # "commit"
          /\ (pc = "divergence" /\ iteration >= 1 /\ DivergenceAboveThreshold)
             => pc' # "commit"
          /\ (pc = "divergence" /\ iteration >= 1 /\ ~DivergenceAboveThreshold)
             => pc' = "commit"
          /\ (pc = "divergence" /\ pc' = "divergence")
             => iteration' \in {iteration + 1, -IterMax - 1}]_vars
    /\ [](pc = "divergence" /\ iteration < 0 => DivergenceAboveThreshold)

\* A divergence loop has run a second iteration, the measure having been
\* above the threshold after the first, and is to run a third.
C14_Witness ==
    /\ pc = "divergence" /\ iteration = 2
    /\ DivergenceAboveThreshold
    /\ IsFinite(average_density_over_time)
    /\ AllFinite(particles)

\* The divergence of velocity_predict at particle i, over its neighbors.
VelocityDivergence(i) ==
    interpolate_div(particles, i, get_neighbors(particles[i].position))

\* C15: when an iteration of the divergence loop is to run on finite
\* values, its second loop gives a non-zero pressure_value to every particle
\* whose velocity_predict has a non-zero divergence and whose dsph_factor is
\* not zero.
C15_PressureValueFromDivergence ==
    (pc = "divergence"
     /\ CorrectDivergenceCondition(params.divergence_threshold)
     /\ IsFinite(delta_time) /\ AllFinite(particles))
    => \A ps \in {ForEach("pressure_value", particles)} :
           \A i \in Particles :
               (/\ IsFinite(VelocityDivergence(i))
                /\ VelocityDivergence(i) # Zero
                /\ IsFinite(particles[i].dsph_factor)
                /\ particles[i].dsph_factor # Zero)
               => ps[i].pressure_value # Zero

\* The mean over the particles of the density change rates the first loop
\* of an iteration of correct_divergence computes on the particles ps.
MeanDensityOverTime(ps) ==
    FDiv(DensityOverTimeFrom(ps, 1, Zero), F(NumParticles))

\* C16: the measure an iteration of the divergence loop leaves in
\* average_density_over_time is the mean of the rates computed in that
\* iteration.
C16_MeasureOfThisIteration ==
    [][(pc = "divergence" /\ pc' = "divergence")
       => average_density_over_time' = MeanDensityOverTime(particles)]_vars

\* C17: no step of the density loop or of the divergence loop changes a
\* particle's position, velocity, density, mass or dsph_factor, nor
\* delta_time, nor the parameters of the fluid; so all have at the exit of
\* a loop the values they had at its entry.
C17_LoopFrame ==
    [][(pc \in {"density", "divergence"}) =>
          ((\A i \in Particles :
                (/\ particles'[i].position = particles[i].position
                 /\ particles'[i].velocity = particles[i].velocity
                 /\ particles'[i].density = particles[i].density
                 /\ particles'[i].mass = particles[i].mass
                 /\ particles'[i].dsph_factor = particles[i].dsph_factor))
           /\ (delta_time' = delta_time)
           /\ (params' = params))]_vars

\* The divergence loop of a second call has left, after both loops wrote
\* density_predict, pressure and velocity_predict.
C17_Witness ==
    /\ pc = "commit" /\ step = 2
    /\ AllFinite(particles)
    /\ \E i \in Particles :
          /\ particles[i].pressure # Zero
          /\ particles[i].density_predict # particles[i].density
          /\ particles[i].velocity_predict # particles[i].velocity

CeilDiv(extent, workgroup_size) ==
    CHOOSE x \in 0..extent :
        /\ x * workgroup_size >= extent
        /\ \A y \in 0..(x - 1) : y * workgroup_size < extent

\* C19: every call of compute_work_group_count with positive workgroup
\* sizes returns, per axis, the least count of workgroups that covers the
\* extent.
C19_CeilingDivision ==
    dispatch.status # "none" =>
        /\ dispatch.status = "returned"
        /\ dispatch.count =
               <<CeilDiv(dispatch.size[1], dispatch.workgroup_size[1]),
                 CeilDiv(dispatch.size[2], dispatch.workgroup_size[2])>>

====
